---- MODULE Spec2Model ----
(***************************************************************************)
(* Day-by-day inventory simulation of the repository, two engines:         *)
(*   "core" : what_if_simulator/core.py  InventorySimulator.run with       *)
(*            what_if_simulator/order_manager.py OrderManager              *)
(*   "sim"  : sim.py InventorySimulator.simulate_product                   *)
(* Dates are day offsets from the first forecast date (day 0).             *)
(* Quantities of "core" are whole units; quantities of "sim" (forecast,     *)
(* eoq, MOQ, reorder point, stock, orders, ledger columns) are counted in   *)
(* halves of a unit, so that 4.5 units is 9 and int() is a real truncation. *)
(* Multiples of 0.5 are doubles whose sums and differences are exact.       *)
(* Money is kept in exact scaled integers:                                  *)
(*   total_holding  in 1/36500 currency units (rate * 36500),              *)
(*   total_ordering in 1/10 currency units,                                *)
(*   total_stockout in currency units,                                     *)
(*   holding_cost of "sim" in 1/73000 currency units.                       *)
(* reliability and the uniform draw are kept in hundredths (0.5 -> 50) for *)
(* "core"; "sim" reads reliability as a percentage already.  "sim" is fed  *)
(* by the dashboard's data_loader.py, "core" by the package's own loader.  *)
(***************************************************************************)
EXTENDS Integers, Sequences, FiniteSets, TLC

\* ---------------------------------------------------------------- bounds
NumDays == 4
MaxGaps == 1

\* ------------------------------------------------------ program constants
SimHorizonDays == 30
SimOrderCost == 500
StockoutPenalty == 5
DefaultDailyRateNum == 7300
DefaultAnnualRatePct == 25
SimAnnualRatePct == 20
DefaultBufferDays == 7

\* ------------------------------------------------------------- scaling
\* number of counted parts in one unit of a quantity of "sim"
Halves == 2

\* ------------------------------------------------------------ input sets
NoEntry == -1
NoDraw == -1
Demands == {0, 3}
OpeningStocks == {0, 4}
Eoqs == {2, 4}
Moqs == {3}
ReorderPoints == {2}
SafetyStocks == {0, 1}
LeadTimes == {0, 1, 2}
Reliabilities == {0, 50, 100}
Draws == {0, 50, 99}
StartWeekdays == {0, 3}
BufferDays == {0, 7, 14}
UnitCosts == {2}
SupplierCosts == {1}
NoRate == -1
HoldingRates == {NoRate, 40}
CtorHoldingRates == {NoRate, 30}
OverrideQtys == {0, 5}
StreamLen == 3
SetRates == {14600}
ForceSupplierIds == {"none", "own", "alt", "unknown"}
\* inputs of "sim", in halves: demand 0 and 3.5, eoq 2 and 4.5, MOQ 3,
\* reorder point 2, safety stock 0 and 1
SimDemands == {0, 7}
SimEoqs == {4, 9}
SimMoqs == {6}
SimReorderPoints == {4}
SimSafetyStocks == {0, 2}

VARIABLES impl, pc, policy, supplier, forecast, ledger_opening, start_wd,
          end_date, arg_holding_rate, holding_rate, day, carried,
          current_stock, pending_orders, demand, stockout_qty, arrived, sold,
          closing_stock, restock_qty, holding_cost, ordering_cost, draw,
          total_holding, total_ordering, total_stockout, results,
          attempt, receipts, n_failed, start_date, demand_mods,
          ledger_has_start, ctor_holding_rate, run_no, first_run,
          enable_risk, metrics, random_state, order_mgr,
          force_supplier_id, buffer_days

vars == <<impl, pc, policy, supplier, forecast, ledger_opening, start_wd,
          end_date, arg_holding_rate, holding_rate, day, carried,
          current_stock, pending_orders, demand, stockout_qty, arrived, sold,
          closing_stock, restock_qty, holding_cost, ordering_cost, draw,
          total_holding, total_ordering, total_stockout, results,
          attempt, receipts, n_failed, start_date, demand_mods,
          ledger_has_start, ctor_holding_rate, run_no, first_run,
          enable_risk, metrics, random_state, order_mgr,
          force_supplier_id, buffer_days>>

\* the inputs of a run: fixed once chosen
inputs == <<impl, policy, supplier, forecast, ledger_opening, start_wd,
            end_date, arg_holding_rate, start_date, demand_mods,
            ledger_has_start, ctor_holding_rate, enable_risk,
            force_supplier_id, buffer_days>>
\* the calls made so far by one caller: the number of the run in progress and
\* what the first run returned
session == <<run_no, first_run>>
costs == <<total_holding, total_ordering, total_stockout>>

\* ------------------------------------------------------------- helpers
Max(a, b) == IF a >= b THEN a ELSE b
Min(a, b) == IF a <= b THEN a ELSE b

RECURSIVE SumSeq(_)
SumSeq(s) == IF s = <<>> THEN 0 ELSE Head(s) + SumSeq(Tail(s))

GapCount(f) == Cardinality({d \in DOMAIN f : f[d] = NoEntry})

\* forecast rows of the product: one optional quantity per day 0..NumDays-1;
\* the first and the last day carry an entry (they delimit the coverage)
ForecastSeriesOf(quantities) ==
    {f \in [0 .. NumDays - 1 -> quantities \cup {NoEntry}] :
        /\ f[0] # NoEntry
        /\ f[NumDays - 1] # NoEntry
        /\ GapCount(f) <= MaxGaps}
ForecastSeries == ForecastSeriesOf(Demands)
SimForecastSeries == ForecastSeriesOf(SimDemands)

\* forecast.loc[forecast["date"] == date, "predicted_units"]
ForecastAt(f, d) == IF d \in DOMAIN f THEN f[d] ELSE NoEntry

Weekday(d) == (start_wd + d) % 7

\* order_date + BusinessDay(n): number of calendar days added
BusinessDayShift(wday, n) ==
    LET weeks == n \div 5
        n1 == IF n <= 0 /\ wday > 4 THEN n + 1 ELSE n
        n2 == n1 - 5 * weeks
        days == IF n2 = 0 /\ wday > 4 THEN 4 - wday
                ELSE IF wday > 4 THEN (7 - wday) + (n2 - 1)
                ELSE IF wday + n2 <= 4 THEN n2
                ELSE n2 + 2
    IN 7 * weeks + days

\* OrderManager._calculate_arrival
CalculateArrival(order_date) ==
    order_date + BusinessDayShift(Weekday(order_date), order_mgr.lead_time)

\* the rows (lead_time, reliability) of the loader's range 1..30 x 1..100 for
\* which the double product lead_time * (1 + (100 - reliability)/100) lies
\* just below its exact whole value: 25 * 1.16 = 28.999999999999996
FloatProductLow == {<<25, 84>>}

\* sim.py _adjusted_lead_time: int(lead_time * (1 + (100 - reliability)/100)),
\* the product being a double that int() truncates
AdjustedLeadTime(s) ==
    LET exact == (s.lead_time * (200 - s.reliability)) \div 100
    IN IF <<s.lead_time, s.reliability>> \in FloatProductLow
       THEN exact - 1 ELSE exact

\* sim.py _calculate_initial_stock lines 114-116: lt_demand sums the forecast
\* rows of [start, start + adjusted lead time], both ends included
LtDemand(f, s) ==
    LET ds == {d \in DOMAIN f : d <= AdjustedLeadTime(s) /\ f[d] # NoEntry}
        RECURSIVE Sum(_)
        Sum(S) == IF S = {} THEN 0
                  ELSE LET x == CHOOSE y \in S : TRUE IN f[x] + Sum(S \ {x})
    IN Sum(ds)

\* n * sum(x^2) - sum(x)^2 over the forecast rows x of the product: the
\* sample variance of predicted_units (pandas std, ddof = 1) is this number
\* divided by n * (n - 1)
RowsOf(f) == {d \in DOMAIN f : f[d] # NoEntry}
RECURSIVE SumOver(_, _, _)
SumOver(f, S, sq) ==
    IF S = {} THEN 0
    ELSE LET x == CHOOSE y \in S : TRUE
         IN (IF sq THEN f[x] * f[x] ELSE f[x]) + SumOver(f, S \ {x}, sq)
VarianceNum(f) ==
    Cardinality(RowsOf(f)) * SumOver(f, RowsOf(f), TRUE)
        - SumOver(f, RowsOf(f), FALSE) * SumOver(f, RowsOf(f), FALSE)

\* int(x) of a quantity of "sim" that is not negative: its whole units,
\* counted in halves like every quantity of "sim"
IntCast(x) == (x \div Halves) * Halves

\* lines 119-120: np.ceil(1.65 * daily_std * np.sqrt(adjusted_lt + buffer_days)),
\* as the set of values the double computation can give. The exact value is
\* the root of 1.65^2 * VarianceNum * days / (Halves^2 * n(n-1)), with
\* 1.65^2 = 1089/400, so np.ceil gives the least whole k with
\* k^2 * n(n-1) >= 1089 * VarianceNum * days / scale. Where the exact value
\* is itself a whole k > 0 the double product lies at k or a rounding error
\* off it, on a side that depends on the rows, and np.ceil gives k or k + 1
\* (rows 0 and 25 units, 32 days: 165.00000000000003, hence 166). A constant
\* forecast has daily_std = 0.0 exactly. The divisions by scale and by
\* n(n-1) are split so that no product exceeds 32 bits (k up to 46340); the
\* forecast has at least two rows.
SafetyStock(f, s, buf) ==
    LET n == Cardinality(RowsOf(f))
        days == AdjustedLeadTime(s) + buf
        scale == 400 * Halves * Halves
        part == 1089 * (VarianceNum(f) % scale) * days
        whole == 1089 * (VarianceNum(f) \div scale) * days + part \div scale
        square == IF part % scale = 0 /\ whole % (n * (n - 1)) = 0
                  THEN whole \div (n * (n - 1))
                  ELSE whole \div (n * (n - 1)) + 1
        RECURSIVE Least(_, _)
        Least(lo, hi) ==
            IF lo = hi THEN lo
            ELSE LET mid == (lo + hi) \div 2
                 IN IF mid * mid >= square THEN Least(lo, mid)
                    ELSE Least(mid + 1, hi)
        k == Least(0, 46340)
        exact == /\ VarianceNum(f) > 0
                 /\ part % scale = 0
                 /\ whole % (n * (n - 1)) = 0
                 /\ k * k = square
    IN {Halves * j : j \in IF exact THEN {k, k + 1} ELSE {k}}

\* sim.py _calculate_initial_stock line 122:
\* max(reorder_point, int(lt_demand + safety_stock)), one value for each
\* value of the safety stock
CalculateInitialStock(p, s, f, buf) ==
    {Max(p.reorder_point, IntCast(LtDemand(f, s) + ss)) :
        ss \in SafetyStock(f, s, buf)}

\* core.py __init__: self.rop = reorder_point + safety_stock
Rop == policy.reorder_point + policy.safety_stock

\* core.py __init__: estimated_order_cost = 0.1 * MOQ * cost   (in tenths),
\* of the supplier row of the product
EstimatedOrderCost == supplier.MOQ * supplier.cost

\* last simulated day: core pd.date_range(start_date, end_date);
\* sim start + timedelta(days = 30 + adjusted lead time)
LastDay == IF impl = "sim" THEN SimHorizonDays + AdjustedLeadTime(supplier)
           ELSE end_date

\* first simulated day: core start_date; sim the fixed start of the horizon
FirstDay == IF impl = "sim" THEN 0 ELSE start_date

\* ---------------------------------------------------------------- Init
Policies == [eoq : Eoqs, reorder_point : ReorderPoints,
             safety_stock : SafetyStocks, unit_cost : UnitCosts]
Suppliers == [lead_time : LeadTimes, MOQ : Moqs,
              reliability : Reliabilities, cost : SupplierCosts]

\* the policy and supplier rows of the dashboard's loader, which leaves eoq,
\* reorder_point, safety_stock and MOQ as the files give them: quantities in
\* halves
SimPolicies == [eoq : SimEoqs, reorder_point : SimReorderPoints,
                safety_stock : SimSafetyStocks, unit_cost : UnitCosts]
SimSuppliers == [lead_time : LeadTimes, MOQ : SimMoqs,
                 reliability : Reliabilities, cost : SupplierCosts]

\* data_loader.py (dashboard) _post_process_data: lead_time clipped to 1..30,
\* reliability clipped to 1..100; the loader of the what_if_simulator package
\* passes the supplier row on as it is
Clip(x, lo, hi) == Max(lo, Min(x, hi))
PostProcessSupplier(s) ==
    [s EXCEPT !.lead_time = Clip(s.lead_time, 1, 30),
              !.reliability = Clip(s.reliability, 1, 100)]

\* OrderManager.__init__ lines 10-12: what the order manager keeps of the
\* supplier row it is given
OrderManagerOf(row) ==
    [lead_time |-> row.lead_time, MOQ |-> row.MOQ,
     reliability |-> row.reliability]

\* sim.py has no order manager
NoOrderManager == [lead_time |-> 0, MOQ |-> 0, reliability |-> 0]

\* suppliers1.csv as load_all_suppliers reads it: the row of the product's own
\* supplier and the row of another supplier
AltSupplier == [lead_time |-> 2, MOQ |-> 5, reliability |-> 100, cost |-> 9]
LoadAllSuppliers ==
    [id \in {"own", "alt"} |-> IF id = "own" THEN supplier ELSE AltSupplier]

\* the metrics of a run that has not returned
NoMetrics ==
    [total_holding_cost |-> 0, total_stockout_cost |-> 0,
     total_ordering_cost |-> 0, stockout_days |-> 0]

\* the random module of the process as far as it is known: the draws that
\* random.random() returns next, in order; what follows them is not known,
\* and nothing is known when the sequence is empty (the package never seeds
\* the module)
Unseeded == <<>>
Streams == [1 .. StreamLen -> Draws]

\* the values the next random.random() can return, and the state after it
NextDraws(rs) == IF rs = Unseeded THEN Draws ELSE {Head(rs)}
AfterDraw(rs) == IF rs = Unseeded THEN rs ELSE Tail(rs)

\* no demand_modifications: run_simulation passes an empty mapping
NoMods == [d \in {} |-> 0]

\* nothing returned yet by an earlier run
NoRun ==
    [results |-> <<>>, totals |-> <<0, 0, 0>>, orders |-> <<>>,
     metrics |-> NoMetrics, holding_rate |-> 0, next_call |-> "none"]

\* (start_date, end_date, ledger row of start_date present) of a run of core:
\* the whole coverage, and one run each that is out of coverage, lacks the
\* ledger row, or has its dates reversed
RunArgs ==
    {<<0, NumDays - 1, TRUE>>, <<0, NumDays, TRUE>>,
     <<0, NumDays - 1, FALSE>>, <<1, 0, TRUE>>}

\* (start_date, end_date, ledger row present, force_supplier_id) of a run:
\* RunArgs without a forced supplier, and one run that forces a supplier id
\* the suppliers file does not have
RunArgsForce ==
    {<<a[1], a[2], a[3], "none">> : a \in RunArgs}
        \cup {<<0, NumDays - 1, TRUE, "unknown">>}

\* the state of the objects after construction: CostCalculator.__init__
\* (core.py 11-18, holding_rate = 0.20 whatever is passed in),
\* OrderManager.__init__ (the product's supplier row, pending_orders = []);
\* sim.py __init__
Constructed ==
    /\ pc = "start"
    /\ order_mgr = IF impl = "core" THEN OrderManagerOf(supplier)
                   ELSE NoOrderManager
    /\ holding_rate = IF impl = "core" THEN DefaultDailyRateNum
                      ELSE SimAnnualRatePct
    /\ day = 0
    /\ carried = 0
    /\ current_stock = 0
    /\ pending_orders = <<>>
    /\ demand = 0
    /\ stockout_qty = 0
    /\ arrived = 0
    /\ sold = 0
    /\ closing_stock = 0
    /\ restock_qty = 0
    /\ holding_cost = 0
    /\ ordering_cost = 0
    /\ draw = NoDraw
    /\ total_holding = 0
    /\ total_ordering = 0
    /\ total_stockout = 0
    /\ results = <<>>
    /\ attempt = "none"
    /\ receipts = <<>>
    /\ n_failed = 0
    /\ metrics = NoMetrics

\* the first call of a caller: nothing has been returned yet
FirstCall ==
    /\ run_no = 1
    /\ first_run = NoRun

\* the objects as constructed, for every product of the input sets; the
\* holding rates of the constructor and of run() are varied for the policies
\* without safety stock
Init ==
    /\ impl \in {"core", "sim"}
    /\ policy \in IF impl = "sim" THEN SimPolicies ELSE Policies
    /\ supplier \in IF impl = "sim"
                     THEN {PostProcessSupplier(row) : row \in SimSuppliers}
                     ELSE Suppliers
    /\ forecast \in IF impl = "sim" THEN SimForecastSeries ELSE ForecastSeries
    /\ IF impl = "core"
       THEN /\ ledger_opening \in OpeningStocks
            /\ start_wd \in StartWeekdays
            /\ arg_holding_rate \in IF policy.safety_stock = 0
                                    THEN HoldingRates ELSE {NoRate}
            /\ ctor_holding_rate \in IF arg_holding_rate = NoRate
                                        /\ policy.safety_stock = 0
                                     THEN CtorHoldingRates ELSE {NoRate}
            /\ \E a \in RunArgsForce :
                 /\ start_date = a[1]
                 /\ end_date = a[2]
                 /\ ledger_has_start = a[3]
                 /\ force_supplier_id = a[4]
       ELSE /\ ledger_opening = 0
            /\ start_wd = 1
            /\ arg_holding_rate = NoRate
            /\ ctor_holding_rate = NoRate
            /\ start_date = 0
            /\ end_date = NumDays - 1
            /\ ledger_has_start = TRUE
            /\ force_supplier_id = "none"
    /\ buffer_days = DefaultBufferDays
    /\ demand_mods = NoMods
    /\ enable_risk = FALSE
    /\ random_state = Unseeded
    /\ Constructed
    /\ FirstCall

\* variant: the day's demand is consumed before the arrivals are added
DaySteps_ArrivalsLate ==
    <<"demand", "consume", "arrivals", "reorder", "costs", "record">>

\* the steps of one simulated day, in the order of the loop body
DaySteps == <<"arrivals", "demand", "consume", "reorder", "costs", "record">>

FirstStep == DaySteps[1]
NextStep(p) ==
    LET i == CHOOSE k \in 1 .. Len(DaySteps) : DaySteps[k] = p
    IN IF i < Len(DaySteps) THEN DaySteps[i + 1] ELSE "loop"

\* the loop's step to the next date of the timeline, or its end
LoopDay == IF day < LastDay THEN day + 1 ELSE day

\* variant: the end date is exclusive
LoopPc_EndExclusive == IF day + 1 < LastDay THEN FirstStep ELSE "done"

LoopPc == IF day < LastDay THEN FirstStep ELSE "done"

\* the orders of the list whose arrival date is the given date
Due(orders, date) == SelectSeq(orders, LAMBDA o : o.arrival_date = date)

\* receipts of stock: one entry per order quantity added to stock
ReceiptsOf(orders, date) ==
    [i \in 1 .. Len(Due(orders, date)) |->
        [date |-> date, quantity |-> Due(orders, date)[i].quantity]]

\* quantities of the listed orders whose arrival date is the given date
ArrivingQty(orders, date) ==
    SumSeq([i \in 1 .. Len(Due(orders, date)) |-> Due(orders, date)[i].quantity])

\* ------------------------------------------------------- core.py: run
\* utils.py validate_date_range: the range must lie inside the dates of the
\* forecast rows; nothing compares start_date with end_date
CoverageDates(f) == {d \in DOMAIN f : f[d] # NoEntry}
MinDate(f) == CHOOSE d \in CoverageDates(f) : \A e \in CoverageDates(f) : d <= e
MaxDate(f) == CHOOSE d \in CoverageDates(f) : \A e \in CoverageDates(f) : d >= e
ValidateDateRange(f, s, e) ==
    /\ CoverageDates(f) # {}
    /\ ~(s < MinDate(f) \/ e > MaxDate(f))

\* run() lines 68-69: the holding_rate argument, when given, replaces the daily
\* rate of the cost calculator by unit_cost * holding_rate / 365
RunHoldingRate ==
    IF arg_holding_rate # NoRate
    THEN policy.unit_cost * arg_holding_rate
    ELSE holding_rate

\* _override_supplier lines 92-94: the forced id has a row in the file
SupplierKnown ==
    force_supplier_id = "none" \/ force_supplier_id \in DOMAIN LoadAllSuppliers

\* run() lines 71-72, _override_supplier line 96: a forced supplier replaces
\* the order manager by a new one made of the row of that id, its pending list
\* empty; without one the order manager stays as it is
RunOrderManager ==
    IF force_supplier_id = "none" THEN order_mgr
    ELSE OrderManagerOf(LoadAllSuppliers[force_supplier_id])
RunPendingOrders ==
    IF force_supplier_id = "none" THEN pending_orders ELSE <<>>

\* run(): runtime holding-rate override, supplier override,
\* validate_date_range, _init_stock_state(start_date); the loop then starts on
\* start_date, and an empty timeline goes straight to _compile_results
CoreRunStart ==
    /\ impl = "core"
    /\ pc = "start"
    /\ SupplierKnown
    /\ ValidateDateRange(forecast, start_date, end_date)
    /\ ledger_has_start
    /\ holding_rate' = RunHoldingRate
    /\ order_mgr' = RunOrderManager
    /\ pending_orders' = RunPendingOrders
    /\ current_stock' = ledger_opening
    /\ carried' = ledger_opening
    /\ results' = <<>>
    /\ day' = start_date
    /\ pc' = IF start_date <= end_date THEN FirstStep ELSE "compile"
    /\ UNCHANGED <<inputs, session, metrics, random_state, demand,
                   stockout_qty, arrived, sold,
                   closing_stock, restock_qty, holding_cost, ordering_cost,
                   draw, costs, attempt, receipts, n_failed>>

\* run(): _override_supplier raises ValueError for an id without a row, after
\* the rate override
CoreSupplierUnknown ==
    /\ impl = "core"
    /\ pc = "start"
    /\ ~SupplierKnown
    /\ holding_rate' = RunHoldingRate
    /\ pc' = "error"
    /\ UNCHANGED <<inputs, session, order_mgr, metrics, random_state, day,
                   carried, current_stock,
                   pending_orders, demand, stockout_qty, arrived, sold,
                   closing_stock, restock_qty, holding_cost, ordering_cost,
                   draw, costs, results, attempt, receipts, n_failed>>

\* run(): validate_date_range raises ValueError, after the rate and supplier
\* overrides
CoreRangeError ==
    /\ impl = "core"
    /\ pc = "start"
    /\ SupplierKnown
    /\ ~ValidateDateRange(forecast, start_date, end_date)
    /\ holding_rate' = RunHoldingRate
    /\ order_mgr' = RunOrderManager
    /\ pending_orders' = RunPendingOrders
    /\ pc' = "error"
    /\ UNCHANGED <<inputs, session, metrics, random_state, day, carried,
                   current_stock, demand, stockout_qty, arrived, sold,
                   closing_stock, restock_qty, holding_cost, ordering_cost,
                   draw, costs, results, attempt, receipts, n_failed>>

\* _init_stock_state: no ledger row for start_date raises ValueError
CoreLedgerMissing ==
    /\ impl = "core"
    /\ pc = "start"
    /\ SupplierKnown
    /\ ValidateDateRange(forecast, start_date, end_date)
    /\ ~ledger_has_start
    /\ holding_rate' = RunHoldingRate
    /\ order_mgr' = RunOrderManager
    /\ pending_orders' = RunPendingOrders
    /\ pc' = "error"
    /\ UNCHANGED <<inputs, session, metrics, random_state, day, carried,
                   current_stock, demand, stockout_qty, arrived, sold,
                   closing_stock, restock_qty, holding_cost, ordering_cost,
                   draw, costs, results, attempt, receipts, n_failed>>

\* _compile_results on an empty list of records: pd.DataFrame([]) has no
\* 'date' column and set_index('date') raises KeyError
CoreCompileEmpty ==
    /\ impl = "core"
    /\ pc = "compile"
    /\ results = <<>>
    /\ pc' = "key_error"
    /\ UNCHANGED <<inputs, session, order_mgr, metrics, random_state, holding_rate, day, carried, current_stock,
                   pending_orders, demand, stockout_qty, arrived, sold,
                   closing_stock, restock_qty, holding_cost, ordering_cost,
                   draw, costs, results, attempt, receipts, n_failed>>

\* _process_order_arrivals: add the orders due today to stock
ProcessOrderArrivals(stock, orders, date) == stock + ArrivingQty(orders, date)

\* the pending list after _process_order_arrivals: the method removes nothing
PendingAfterArrivals(orders, date) == orders

CoreProcessArrivals ==
    /\ impl = "core"
    /\ pc = "arrivals"
    /\ carried' = current_stock
    /\ current_stock' = ProcessOrderArrivals(current_stock, pending_orders, day)
    /\ arrived' = current_stock' - current_stock
    /\ receipts' = receipts \o ReceiptsOf(pending_orders, day)
    /\ pending_orders' = PendingAfterArrivals(pending_orders, day)
    /\ pc' = NextStep(pc)
    /\ UNCHANGED <<inputs, session, order_mgr, metrics, random_state, holding_rate, day, demand, stockout_qty, sold,
                   closing_stock, restock_qty, holding_cost, ordering_cost,
                   draw, costs, results, attempt, n_failed>>

\* variant: the override is read with "or", so an override of 0 falls
\* through to the forecast
GetDailyDemand_Truthy(mods, f, d) ==
    IF d \in DOMAIN mods /\ mods[d] # 0 THEN mods[d] ELSE ForecastAt(f, d)

\* _get_daily_demand: the override of the date when the mapping has the date,
\* else the forecast row of the date (NoEntry when there is none)
GetDailyDemand(mods, f, d) ==
    IF d \in DOMAIN mods THEN mods[d] ELSE ForecastAt(f, d)

\* _get_daily_demand: the override or the forecast row of the day
CoreGetDemand ==
    /\ impl = "core"
    /\ pc = "demand"
    /\ GetDailyDemand(demand_mods, forecast, day) # NoEntry
    /\ demand' = GetDailyDemand(demand_mods, forecast, day)
    /\ pc' = NextStep(pc)
    /\ UNCHANGED <<inputs, session, order_mgr, metrics, random_state, holding_rate, day, carried, current_stock,
                   pending_orders, stockout_qty, arrived, sold, closing_stock,
                   restock_qty, holding_cost, ordering_cost, draw, costs,
                   results, attempt, receipts, n_failed>>

\* _get_daily_demand: no forecast row for the day raises ValueError
CoreDemandMissing ==
    /\ impl = "core"
    /\ pc = "demand"
    /\ GetDailyDemand(demand_mods, forecast, day) = NoEntry
    /\ pc' = "error"
    /\ UNCHANGED <<inputs, session, order_mgr, metrics, random_state, holding_rate, day, carried, current_stock,
                   pending_orders, demand, stockout_qty, arrived, sold,
                   closing_stock, restock_qty, holding_cost, ordering_cost,
                   draw, costs, results, attempt, receipts, n_failed>>

\* variant: the stock is not clamped at zero
StockAfterDemand_Unclamped(stock, dm) == stock - dm

\* _update_inventory: stock after consumption and the returned stockout
StockAfterDemand(stock, dm) == Max(stock - dm, 0)
StockoutOf(stock, dm) == Max(-(stock - dm), 0)

CoreUpdateInventory ==
    /\ impl = "core"
    /\ pc = "consume"
    /\ current_stock' = StockAfterDemand(current_stock, demand)
    /\ stockout_qty' = StockoutOf(current_stock, demand)
    /\ pc' = NextStep(pc)
    /\ UNCHANGED <<inputs, session, order_mgr, metrics, random_state, holding_rate, day, carried, pending_orders, demand,
                   arrived, sold, closing_stock, restock_qty, holding_cost,
                   ordering_cost, draw, costs, results, attempt, receipts,
                   n_failed>>

\* variant: the pending list is not consulted
ReorderDue_NoPendingCheck(stock, orders) == stock <= Rop

\* _check_reorder_point: the reorder condition
ReorderDue(stock, orders) == stock <= Rop /\ orders = <<>>

\* place_order: the reliability trial, random.random() > self.reliability
TrialFails(u, reliability) == u > reliability

\* place_order: order_qty = max(needed_qty, moq)
OrderQty(needed_qty, moq) == Max(needed_qty, moq)

\* place_order after a passed trial: the order appended to the pending list
PlaceOrder(orders, order_date, needed_qty) ==
    Append(orders, [arrival_date |-> CalculateArrival(order_date),
                    quantity |-> OrderQty(needed_qty, order_mgr.MOQ)])

\* variant: the order is stored before the trial raises
FailedPlaceOrder_Stored(orders, order_date, needed_qty) ==
    PlaceOrder(orders, order_date, needed_qty)

\* place_order after a failed trial: the raise precedes the append
FailedPlaceOrder(orders, order_date, needed_qty) == orders

\* _check_reorder_point, trial passed: order stored, ordering cost added
CoreReorderPlaced ==
    /\ impl = "core"
    /\ pc = "reorder"
    /\ ReorderDue(current_stock, pending_orders)
    /\ \E u \in NextDraws(random_state) :
         /\ ~TrialFails(u, order_mgr.reliability)
         /\ draw' = u
    /\ random_state' = AfterDraw(random_state)
    /\ pending_orders' = PlaceOrder(pending_orders, day, policy.eoq)
    /\ total_ordering' = total_ordering + EstimatedOrderCost
    /\ attempt' = "placed"
    /\ pc' = NextStep(pc)
    /\ UNCHANGED <<inputs, session, order_mgr, metrics, holding_rate, day, carried, current_stock, demand,
                   stockout_qty, arrived, sold, closing_stock, restock_qty,
                   holding_cost, ordering_cost, total_holding, total_stockout,
                   results, receipts, n_failed>>

\* variant: OrderFailedError is not caught and leaves run()
AfterOrderFailed_Raised(p) == "order_failed"

\* where _check_reorder_point continues after OrderFailedError: the except
\* clause swallows it and the day goes on
AfterOrderFailed(p) == NextStep(p)

\* variant: add_order_cost is called before place_order, outside the try
FailedOrderCost_Charged(total) == total + EstimatedOrderCost

\* _check_reorder_point lines 148-152: place_order raises before
\* add_order_cost is reached, the total stays as it is
FailedOrderCost(total) == total

\* _check_reorder_point, trial failed: OrderFailedError raised and handled
CoreReorderFailed ==
    /\ impl = "core"
    /\ pc = "reorder"
    /\ ReorderDue(current_stock, pending_orders)
    /\ \E u \in NextDraws(random_state) :
         /\ TrialFails(u, order_mgr.reliability)
         /\ draw' = u
    /\ random_state' = AfterDraw(random_state)
    /\ pending_orders' = FailedPlaceOrder(pending_orders, day, policy.eoq)
    /\ attempt' = "failed"
    /\ n_failed' = n_failed + 1
    /\ total_ordering' = FailedOrderCost(total_ordering)
    /\ pc' = AfterOrderFailed(pc)
    /\ UNCHANGED <<inputs, session, order_mgr, metrics, holding_rate, day, carried, current_stock,
                   demand, stockout_qty, arrived, sold,
                   closing_stock, restock_qty, holding_cost, ordering_cost,
                   total_holding, total_stockout, results, receipts>>

\* _check_reorder_point, condition false: nothing is attempted
CoreReorderSkip ==
    /\ impl = "core"
    /\ pc = "reorder"
    /\ ~ReorderDue(current_stock, pending_orders)
    /\ draw' = NoDraw
    /\ attempt' = "none"
    /\ pc' = NextStep(pc)
    /\ UNCHANGED <<inputs, session, order_mgr, metrics, random_state, holding_rate, day, carried, current_stock,
                   pending_orders, demand, stockout_qty, arrived, sold,
                   closing_stock, restock_qty, holding_cost, ordering_cost,
                   costs, results, receipts, n_failed>>

\* variant: the holding cost is charged on the stock before consumption
HoldingAccrual_BeforeDemand(stock, rate) ==
    (stock + demand - stockout_qty) * rate

\* update_costs line 22: closing_stock * self.holding_rate
HoldingAccrual(stock, rate) == stock * rate

\* variant: the penalty is charged on the signed shortfall of the day
StockoutAccrual_Signed(qty) == (qty - demand) * StockoutPenalty

\* update_costs line 23: stockout_qty * self.stockout_penalty
StockoutAccrual(qty) == qty * StockoutPenalty

\* CostCalculator.update_costs, called with self.current_stock after the
\* day's consumption
CoreUpdateCosts ==
    /\ impl = "core"
    /\ pc = "costs"
    /\ total_holding' = total_holding + HoldingAccrual(current_stock, holding_rate)
    /\ total_stockout' = total_stockout + StockoutAccrual(stockout_qty)
    /\ pc' = NextStep(pc)
    /\ UNCHANGED <<inputs, session, order_mgr, metrics, random_state, holding_rate, day, carried, current_stock,
                   pending_orders, demand, stockout_qty, arrived, sold,
                   closing_stock, restock_qty, holding_cost, ordering_cost,
                   draw, total_ordering, results, attempt, receipts, n_failed>>

\* _record_daily_result
CoreRecordOf(date, dm, so) ==
    [date |-> date, demand |-> dm, stockout |-> so,
     inventory |-> current_stock, pending_orders |-> Len(pending_orders)]

\* results.append(...) of the loop body
CoreRecord ==
    /\ impl = "core"
    /\ pc = "record"
    /\ results' = Append(results, CoreRecordOf(day, demand, stockout_qty))
    /\ pc' = NextStep(pc)
    /\ UNCHANGED <<inputs, session, order_mgr, metrics, random_state, holding_rate, day, carried, current_stock,
                   pending_orders, demand, stockout_qty, arrived, sold,
                   closing_stock, restock_qty, holding_cost, ordering_cost,
                   draw, costs, attempt, receipts, n_failed>>

\* variant: days without a stockout are counted too
StockoutDays_All(rs) == Cardinality({i \in 1 .. Len(rs) : rs[i].stockout >= 0})

\* _compile_results line 173: df['stockout'].gt(0).sum()
StockoutDays(rs) == Cardinality({i \in 1 .. Len(rs) : rs[i].stockout > 0})

\* round(total, 2) in cents, for a total of num / den currency units; the
\* totals of the model never lie halfway between two cents
RoundCents(num, den) == (200 * num + den) \div (2 * den)

\* _compile_results lines 168-175: the metrics, money in cents
CompileResults(rs) ==
    [total_holding_cost |-> RoundCents(total_holding, 36500),
     total_stockout_cost |-> RoundCents(total_stockout, 1),
     total_ordering_cost |-> RoundCents(total_ordering, 10),
     stockout_days |-> StockoutDays(rs)]

\* for day in timeline: the next date, or the end of the loop and
\* _compile_results
CoreLoop ==
    /\ impl = "core"
    /\ pc = "loop"
    /\ day' = LoopDay
    /\ pc' = LoopPc
    /\ metrics' = IF LoopPc = "done" THEN CompileResults(results) ELSE metrics
    /\ UNCHANGED <<inputs, session, order_mgr, random_state, holding_rate, carried, current_stock,
                   pending_orders, demand, stockout_qty, arrived, sold,
                   closing_stock, restock_qty, holding_cost, ordering_cost,
                   draw, costs, results, attempt, receipts, n_failed>>

CoreNext ==
    \/ CoreRunStart
    \/ CoreSupplierUnknown
    \/ CoreRangeError
    \/ CoreLedgerMissing
    \/ CoreCompileEmpty
    \/ CoreProcessArrivals
    \/ CoreGetDemand
    \/ CoreDemandMissing
    \/ CoreUpdateInventory
    \/ CoreReorderPlaced
    \/ CoreReorderFailed
    \/ CoreReorderSkip
    \/ CoreUpdateCosts
    \/ CoreRecord
    \/ CoreLoop

\* ------------------------------------------- sim.py: simulate_product
\* lines 42-50: date range, initial stock, empty pending list and ledger
SimStart ==
    /\ impl = "sim"
    /\ pc = "start"
    /\ current_stock' \in
           CalculateInitialStock(policy, supplier, forecast, buffer_days)
    /\ carried' = current_stock'
    /\ pending_orders' = <<>>
    /\ results' = <<>>
    /\ day' = 0
    /\ pc' = FirstStep
    /\ UNCHANGED <<inputs, session, order_mgr, metrics, random_state, holding_rate, demand, stockout_qty, arrived, sold,
                   closing_stock, restock_qty, holding_cost, ordering_cost,
                   draw, costs, attempt, receipts, n_failed>>

\* line 56: pending_orders = [(d, qty) for d, qty in pending_orders if d > date]
SimPendingAfterArrivals(orders, date) ==
    SelectSeq(orders, LAMBDA o : o.arrival_date > date)

\* lines 54-56: process order arrivals
SimArrivals ==
    /\ impl = "sim"
    /\ pc = "arrivals"
    /\ carried' = current_stock
    /\ arrived' = ArrivingQty(pending_orders, day)
    /\ current_stock' = current_stock + arrived'
    /\ receipts' = receipts \o ReceiptsOf(pending_orders, day)
    /\ pending_orders' = SimPendingAfterArrivals(pending_orders, day)
    /\ pc' = NextStep(pc)
    /\ UNCHANGED <<inputs, session, order_mgr, metrics, random_state, holding_rate, day, demand, stockout_qty, sold,
                   closing_stock, restock_qty, holding_cost, ordering_cost,
                   draw, costs, results, attempt, n_failed>>

\* lines 59-62: the forecast row of the day, 0 when there is none
SimDemandOf(f, d) == IF ForecastAt(f, d) = NoEntry THEN 0 ELSE ForecastAt(f, d)

SimDemand ==
    /\ impl = "sim"
    /\ pc = "demand"
    /\ demand' = SimDemandOf(forecast, day)
    /\ pc' = NextStep(pc)
    /\ UNCHANGED <<inputs, session, order_mgr, metrics, random_state, holding_rate, day, carried, current_stock,
                   pending_orders, stockout_qty, arrived, sold, closing_stock,
                   restock_qty, holding_cost, ordering_cost, draw, costs,
                   results, attempt, receipts, n_failed>>

\* lines 65-67: sold, unmet, closing_stock
SimSold(stock, dm) == Min(stock, dm)
SimUnmet(stock, dm) == Max(0, dm - SimSold(stock, dm))
SimClosing(stock, dm) == stock - SimSold(stock, dm)

SimTransactions ==
    /\ impl = "sim"
    /\ pc = "consume"
    /\ sold' = SimSold(current_stock, demand)
    /\ stockout_qty' = SimUnmet(current_stock, demand)
    /\ closing_stock' = SimClosing(current_stock, demand)
    /\ pc' = NextStep(pc)
    /\ UNCHANGED <<inputs, session, order_mgr, metrics, random_state, holding_rate, day, carried, current_stock,
                   pending_orders, demand, arrived, restock_qty, holding_cost,
                   ordering_cost, draw, costs, results, attempt, receipts,
                   n_failed>>

\* line 71: the order placement condition
SimReorderDue(closing, orders) ==
    closing < policy.reorder_point /\ orders = <<>>

\* line 72: order_qty = max(policy["eoq"], supplier["MOQ"])
SimOrderQty(eoq, moq) == Max(eoq, moq)

\* lines 70-76, condition true: int(order_qty) is appended to the pending
\* list and becomes restock_qty
SimOrderPlaced ==
    /\ impl = "sim"
    /\ pc = "reorder"
    /\ SimReorderDue(closing_stock, pending_orders)
    /\ pending_orders' = Append(pending_orders,
                                [arrival_date |-> day + AdjustedLeadTime(supplier),
                                 quantity |->
                                     IntCast(SimOrderQty(policy.eoq,
                                                         supplier.MOQ))])
    /\ restock_qty' = IntCast(SimOrderQty(policy.eoq, supplier.MOQ))
    /\ attempt' = "placed"
    /\ pc' = NextStep(pc)
    /\ UNCHANGED <<inputs, session, order_mgr, metrics, random_state, holding_rate, day, carried, current_stock, demand,
                   stockout_qty, arrived, sold, closing_stock, holding_cost,
                   ordering_cost, draw, costs, results, receipts, n_failed>>

\* lines 70-71, condition false: restock_qty = 0
SimOrderSkip ==
    /\ impl = "sim"
    /\ pc = "reorder"
    /\ ~SimReorderDue(closing_stock, pending_orders)
    /\ restock_qty' = 0
    /\ attempt' = "none"
    /\ pc' = NextStep(pc)
    /\ UNCHANGED <<inputs, session, order_mgr, metrics, random_state, holding_rate, day, carried, current_stock,
                   pending_orders, demand, stockout_qty, arrived, sold,
                   closing_stock, holding_cost, ordering_cost, draw, costs,
                   results, receipts, n_failed>>

\* lines 79-80: the day's holding cost (closing_stock in halves, hence in
\* 1/73000 currency units) and ordering cost
SimCosts ==
    /\ impl = "sim"
    /\ pc = "costs"
    /\ holding_cost' = closing_stock * policy.unit_cost * holding_rate
    /\ ordering_cost' = IF restock_qty > 0 THEN SimOrderCost ELSE 0
    /\ pc' = NextStep(pc)
    /\ UNCHANGED <<inputs, session, order_mgr, metrics, random_state, holding_rate, day, carried, current_stock,
                   pending_orders, demand, stockout_qty, arrived, sold,
                   closing_stock, restock_qty, draw, costs, results, attempt,
                   receipts, n_failed>>

\* lines 82-93: the ledger row of the day; opening_stock is current_stock as
\* it is after line 55 added the day's arrivals, and the five quantities of
\* lines 84-88 are cut to whole units by int()
SimRecordOf(date) ==
    [date |-> date, opening_stock |-> IntCast(current_stock),
     demand |-> IntCast(demand), sold |-> IntCast(sold),
     unmet_demand |-> IntCast(stockout_qty),
     closing_stock |-> IntCast(closing_stock), restock_qty |-> restock_qty,
     holding_cost |-> holding_cost, ordering_cost |-> ordering_cost]

\* lines 82-94: ledger.append and current_stock = closing_stock
SimRecord ==
    /\ impl = "sim"
    /\ pc = "record"
    /\ results' = Append(results, SimRecordOf(day))
    /\ current_stock' = closing_stock
    /\ pc' = NextStep(pc)
    /\ UNCHANGED <<inputs, session, order_mgr, metrics, random_state, holding_rate, day, carried, pending_orders, demand,
                   stockout_qty, arrived, sold, closing_stock, restock_qty,
                   holding_cost, ordering_cost, draw, costs, attempt, receipts,
                   n_failed>>

\* line 52: the next date of pd.date_range, or the end of the loop and the
\* return of the ledger
SimLoop ==
    /\ impl = "sim"
    /\ pc = "loop"
    /\ day' = LoopDay
    /\ pc' = LoopPc
    /\ UNCHANGED <<inputs, session, order_mgr, metrics, random_state, holding_rate, carried, current_stock,
                   pending_orders, demand, stockout_qty, arrived, sold,
                   closing_stock, restock_qty, holding_cost, ordering_cost,
                   draw, costs, results, attempt, receipts, n_failed>>

SimNext ==
    \/ SimStart
    \/ SimArrivals
    \/ SimDemand
    \/ SimTransactions
    \/ SimOrderPlaced
    \/ SimOrderSkip
    \/ SimCosts
    \/ SimRecord
    \/ SimLoop

Next == CoreNext \/ SimNext

Spec == Init /\ [][Next]_vars

\* ------------------------------------- core.py run(): the run's arguments
\* demand_modifications of a run: none, or one date with its quantity
ModsSets ==
    {NoMods} \cup {[d \in {x} |-> q] : x \in 0 .. NumDays - 1, q \in OverrideQtys}

\* one policy and one supplier row, the arguments of run() varied:
\* start_date and end_date inside and outside the forecast dates and in either
\* order, the ledger row of start_date present or not, overrides
InitArgs ==
    /\ impl = "core"
    /\ policy \in {p \in Policies : p.eoq = 4 /\ p.safety_stock = 0}
    /\ supplier \in {r \in Suppliers : r.lead_time = 1 /\ r.reliability = 50}
    /\ forecast \in ForecastSeries
    /\ ledger_opening \in OpeningStocks
    /\ start_wd = 4
    /\ arg_holding_rate = NoRate
    /\ ctor_holding_rate = NoRate
    /\ start_date \in -1 .. NumDays
    /\ end_date \in -1 .. NumDays
    /\ ledger_has_start \in BOOLEAN
    /\ demand_mods \in ModsSets
    /\ force_supplier_id \in {"none", "unknown"}
    /\ buffer_days = DefaultBufferDays
    /\ enable_risk = FALSE
    /\ random_state = Unseeded
    /\ Constructed
    /\ FirstCall

SpecArgs == InitArgs /\ [][CoreNext]_vars

\* run() is one sequential call: a step that can be taken is taken
FairArgs == SpecArgs /\ WF_vars(CoreNext)

\* ------------------------------- simulator.py: run_simulation called twice
\* what run_simulation returns: the daily records, the cost totals behind the
\* metrics, and the orders of the order manager; with them the daily rate the
\* cost calculator of the run charged at
Returned(call) ==
    [results |-> results,
     totals |-> <<total_holding, total_ordering, total_stockout>>,
     orders |-> pending_orders,
     metrics |-> metrics,
     holding_rate |-> holding_rate,
     next_call |-> call]

\* the caller has the result of a first run and makes a second call
SecondCall(call) ==
    /\ impl = "core"
    /\ pc = "done"
    /\ run_no = 1
    /\ run_no' = 2
    /\ first_run' = Returned(call)

\* simulator.py line 47, core.py 34-56: a new InventorySimulator with a new
\* cost calculator and a new order manager; nothing seeds the random module,
\* whose draws go on from wherever the process has left it
NewSimulator ==
    /\ pc' = "start"
    /\ order_mgr' = OrderManagerOf(supplier)
    /\ holding_rate' = DefaultDailyRateNum
    /\ day' = 0
    /\ carried' = 0
    /\ current_stock' = 0
    /\ pending_orders' = <<>>
    /\ demand' = 0
    /\ stockout_qty' = 0
    /\ arrived' = 0
    /\ draw' = NoDraw
    /\ total_holding' = 0
    /\ total_ordering' = 0
    /\ total_stockout' = 0
    /\ results' = <<>>
    /\ attempt' = "none"
    /\ receipts' = <<>>
    /\ n_failed' = 0
    /\ metrics' = NoMetrics
    /\ UNCHANGED <<random_state, sold, closing_stock, restock_qty,
                   holding_cost, ordering_cost>>

\* the inputs of a run other than the holding rates
fixed_inputs == <<impl, policy, supplier, forecast, ledger_opening, start_wd,
                  end_date, start_date, demand_mods, ledger_has_start,
                  enable_risk, force_supplier_id, buffer_days>>

\* run_simulation (or the constructor and run()) called a second time with
\* the same arguments
RunSimulationAgain ==
    /\ SecondCall("same_arguments")
    /\ NewSimulator
    /\ UNCHANGED inputs

\* the second scenario of a comparison: the same arguments with the
\* annualized holding rate doubled, in run() or in the constructor, wherever
\* the first run was given it
DoubleRate(r) == IF r = NoRate THEN NoRate ELSE 2 * r
RunScenarioRate ==
    /\ SecondCall("double_rate")
    /\ arg_holding_rate # NoRate \/ ctor_holding_rate # NoRate
    /\ arg_holding_rate' = DoubleRate(arg_holding_rate)
    /\ ctor_holding_rate' = DoubleRate(ctor_holding_rate)
    /\ NewSimulator
    /\ UNCHANGED fixed_inputs

\* the second scenario asks for another stockout penalty: run_simulation
\* (simulator.py 10-18), run() (core.py 58-66) and InventorySimulator.__init__
\* (core.py 34) have no such parameter, the keyword is rejected with TypeError
\* before anything is constructed or simulated
RunScenarioPenalty ==
    /\ SecondCall("stockout_penalty")
    /\ pc' = "type_error"
    /\ results' = <<>>
    /\ metrics' = NoMetrics
    /\ UNCHANGED <<inputs, order_mgr, random_state, holding_rate, day,
                   carried,
                   current_stock, pending_orders, demand, stockout_qty,
                   arrived, sold, closing_stock, restock_qty, holding_cost,
                   ordering_cost, draw, costs, attempt, receipts, n_failed>>

\* the inputs of a run other than the forced supplier
unforced_inputs ==
    <<impl, policy, supplier, forecast, ledger_opening, start_wd, end_date,
      arg_holding_rate, start_date, demand_mods, ledger_has_start,
      ctor_holding_rate, enable_risk, buffer_days>>

\* run() called again on the simulator of the first run, with the arguments
\* of the first run or with the product's own supplier forced: the cost
\* calculator and the order manager are those of the first run, the call
\* resets neither; results and the stock are set anew by run() itself
\* (lines 76-77), the order manager by run() when a supplier is forced
RunAgainSameSimulator ==
    /\ SecondCall("same_simulator")
    /\ force_supplier_id' \in {force_supplier_id, "own"}
    /\ pc' = "start"
    /\ attempt' = "none"
    /\ receipts' = <<>>
    /\ n_failed' = 0
    /\ draw' = NoDraw
    /\ metrics' = NoMetrics
    /\ UNCHANGED <<unforced_inputs, order_mgr, random_state, holding_rate,
                   day, carried,
                   current_stock, pending_orders, demand, stockout_qty,
                   arrived, sold, closing_stock, restock_qty, holding_cost,
                   ordering_cost, costs, results>>

\* CostCalculator.set_holding_rate (core.py 29-30), called on the cost
\* calculator of the simulator between its construction and a run: the daily
\* rate per unit becomes the given rate
SetHoldingRate ==
    /\ impl = "core"
    /\ pc = "start"
    /\ \E r \in SetRates : r # holding_rate /\ holding_rate' = r
    /\ UNCHANGED <<pc, inputs, session, order_mgr, metrics, random_state, day,
                   carried, current_stock,
                   pending_orders, demand, stockout_qty, arrived, sold,
                   closing_stock, restock_qty, holding_cost, ordering_cost,
                   draw, costs, results, attempt, receipts, n_failed>>

InitPair ==
    /\ impl = "core"
    /\ policy \in {p \in Policies : p.eoq = 4 /\ p.safety_stock = 0}
    /\ supplier \in {r \in Suppliers : r.lead_time = 1 /\ r.reliability = 50}
    /\ forecast \in ForecastSeries
    /\ ledger_opening \in OpeningStocks
    /\ start_wd = 0
    /\ arg_holding_rate \in HoldingRates
    /\ ctor_holding_rate \in IF arg_holding_rate = NoRate
                             THEN CtorHoldingRates \ {NoRate} ELSE {NoRate}
    /\ \E a \in RunArgs :
         /\ start_date = a[1]
         /\ end_date = a[2]
         /\ ledger_has_start = a[3]
    /\ demand_mods = NoMods
    /\ enable_risk \in BOOLEAN
    /\ random_state \in {Unseeded} \cup Streams
    /\ force_supplier_id \in IF random_state = Unseeded
                              THEN ForceSupplierIds ELSE {"none"}
    /\ buffer_days = DefaultBufferDays
    /\ Constructed
    /\ FirstCall

NextPair ==
    \/ CoreNext
    \/ RunSimulationAgain
    \/ RunScenarioRate
    \/ RunScenarioPenalty
    \/ RunAgainSameSimulator
    \/ SetHoldingRate

SpecPair == InitPair /\ [][NextPair]_vars

\* --------------------------------- sim.py what_if_tab: base and scenario
\* the supplier and the policy of the scenario (simulate_product lines 23-34):
\* any supplier row of the product; eoq and reorder_point of the form
\* (what_if_tab lines 161-177: whole numbers, the eoq at least
\* int(smallest MOQ), the reorder point at least 0), safety_stock that of the
\* base policy
ScenarioEoqs ==
    {e \in {4, 8, 10} :
        e = IntCast(e) /\ \E r \in SimSuppliers : e >= IntCast(r.MOQ)}
ScenarioReorderPoints == {r \in {4, 18} : r = IntCast(r)}
ScenarioSuppliers == {PostProcessSupplier(r) : r \in SimSuppliers}
ScenarioPolicies ==
    {[policy EXCEPT !.eoq = e, !.reorder_point = r] :
        e \in ScenarioEoqs, r \in ScenarioReorderPoints}

\* what_if_tab lines 187-199: simulate_product(product) has returned the base
\* ledger, simulate_product(product, scenario_params) is called on the same
\* simulator; all the state of a run is local to simulate_product
SimScenarioRun ==
    /\ impl = "sim"
    /\ pc = "done"
    /\ run_no = 1
    /\ run_no' = 2
    /\ first_run' = Returned("scenario")
    /\ supplier' \in ScenarioSuppliers
    /\ policy' \in ScenarioPolicies
    /\ buffer_days' \in BufferDays
    /\ pc' = "start"
    /\ attempt' = "none"
    /\ receipts' = <<>>
    /\ UNCHANGED <<impl, forecast, ledger_opening, start_wd, end_date,
                   arg_holding_rate, start_date, demand_mods,
                   ledger_has_start, ctor_holding_rate, enable_risk,
                   force_supplier_id, order_mgr,
                   metrics, random_state, holding_rate, day, carried,
                   current_stock, pending_orders, demand, stockout_qty,
                   arrived, sold, closing_stock, restock_qty, holding_cost,
                   ordering_cost, draw, costs, results, n_failed>>

InitWhatIf ==
    /\ impl = "sim"
    /\ policy \in {p \in SimPolicies : p.eoq = 9 /\ p.safety_stock = 0}
    /\ supplier \in {PostProcessSupplier(r) :
                        r \in {x \in SimSuppliers : x.lead_time = 1}}
    /\ forecast \in SimForecastSeries
    /\ ledger_opening = 0
    /\ start_wd = 1
    /\ arg_holding_rate = NoRate
    /\ ctor_holding_rate = NoRate
    /\ start_date = 0
    /\ end_date = NumDays - 1
    /\ ledger_has_start = TRUE
    /\ demand_mods = NoMods
    /\ force_supplier_id = "none"
    /\ buffer_days = DefaultBufferDays
    /\ enable_risk = FALSE
    /\ random_state = Unseeded
    /\ Constructed
    /\ FirstCall

NextWhatIf == SimNext \/ SimScenarioRun

SpecWhatIf == InitWhatIf /\ [][NextWhatIf]_vars

\* ================================================================ claims
\* the day's consumption has been applied
AfterConsume == pc \in {"reorder", "costs", "record", "loop"}
\* stock left after the day's consumption
StockAfter == IF impl = "sim" /\ pc # "loop" THEN closing_stock ELSE current_stock
\* stock available to the day's demand: carried over plus the day's arrivals
Available == carried + arrived

\* C1: on-hand stock is never negative, after arrivals, after consumption
\* and at the end of the day; a demand above the available stock leaves
\* stock at 0 and is recorded as stockout
C1_StockNonNegative ==
    /\ current_stock >= 0
    /\ closing_stock >= 0
    /\ (AfterConsume /\ demand > Available) =>
          (StockAfter = 0 /\ stockout_qty = demand - Available)

C1_Witness ==
    /\ AfterConsume
    /\ Available > 0
    /\ demand > Available
    /\ stockout_qty > 0

\* C2: the record emitted for a day satisfies the stock balance on its own
\* columns, its opening_stock being the stock carried over from the previous
\* day: closing = opening + arrivals - sold,
\* sold = min(opening + arrivals, demand),
\* unmet = max(demand - (opening + arrivals), 0).
\* A record of core.py has the columns demand, stockout and inventory only:
\* its opening stock is the stock carried over and its sold quantity is
\* demand - stockout.
C2_StockBalance ==
    (pc = "loop" /\ results # <<>>) =>
        LET r == results[Len(results)]
            r_opening == IF impl = "sim" THEN r.opening_stock ELSE carried
            r_sold == IF impl = "sim" THEN r.sold ELSE r.demand - r.stockout
            r_unmet == IF impl = "sim" THEN r.unmet_demand ELSE r.stockout
            r_closing == IF impl = "sim" THEN r.closing_stock ELSE r.inventory
        IN /\ r_opening = carried
           /\ r_closing = r_opening + arrived - r_sold
           /\ r_sold = Min(r_opening + arrived, r.demand)
           /\ r_unmet = Max(r.demand - (r_opening + arrived), 0)

\* C3: at most one pending order exists at any time of a run; no order is
\* placed while one is outstanding
C3_AtMostOnePending == Len(pending_orders) <= 1

C3_Witness ==
    /\ pc = "costs"
    /\ attempt = "none"
    /\ Len(pending_orders) = 1
    /\ pending_orders[1].arrival_date > day
    /\ StockAfter <= policy.reorder_point - 1

\* C4: every placed order, pending or already received, has
\* quantity >= max(EOQ, MOQ)
C4_OrderQtyAtLeastMax ==
    /\ \A i \in 1 .. Len(pending_orders) :
          pending_orders[i].quantity >= Max(policy.eoq, supplier.MOQ)
    /\ \A i \in 1 .. Len(receipts) :
          receipts[i].quantity >= Max(policy.eoq, supplier.MOQ)

\* quantity received on the current day
ReceivedToday ==
    SumSeq([i \in 1 .. Len(receipts) |->
              IF receipts[i].date = day THEN receipts[i].quantity ELSE 0])

\* C5: on its arrival date an order is removed from the pending list and its
\* quantity added to stock; after the arrival step nothing is pending until
\* another order is placed
C5_ArrivedOrderRemoved ==
    (pc \in {"demand", "consume", "reorder"} /\ ReceivedToday > 0) =>
        /\ pending_orders = <<>>
        /\ pc = "demand" => current_stock = carried + ReceivedToday

\* no order of the pending list was outstanding when the day's reorder step
\* began: the list without the order placed in that step holds only orders
\* already received
NoneOutstandingBefore ==
    LET n == Len(pending_orders) - (IF attempt = "placed" THEN 1 ELSE 0)
    IN IF impl = "core" THEN n <= Len(receipts) ELSE n = 0

\* C6: an order attempt is made on exactly the days on which, after
\* consumption, stock <= reorder_point + safety_stock and no order is
\* outstanding, also after an earlier order has arrived
C6_AttemptIffDue ==
    pc = "costs" =>
        ((attempt # "none") <=>
            (StockAfter <= policy.reorder_point + policy.safety_stock
             /\ NoneOutstandingBefore))

\* C7: the steps of a day run in the order arrivals, demand, consumption,
\* reorder check, cost accrual, record; the units arriving on a day are
\* available to that day's demand
StepPairs ==
    {<<"start", "arrivals">>, <<"start", "error">>, <<"start", "compile">>,
     <<"compile", "key_error">>,
     <<"arrivals", "demand">>, <<"demand", "consume">>,
     <<"demand", "error">>, <<"consume", "reorder">>, <<"reorder", "costs">>,
     <<"costs", "record">>, <<"record", "loop">>, <<"loop", "arrivals">>,
     <<"loop", "done">>}

ArrivalsServeDemand ==
    AfterConsume =>
        /\ arrived = ReceivedToday
        /\ StockAfter = Max(carried + ReceivedToday - demand, 0)
        /\ stockout_qty = Max(demand - (carried + ReceivedToday), 0)

C7_DayOrder ==
    /\ []ArrivalsServeDemand
    /\ [][pc' # pc => <<pc, pc'>> \in StepPairs]_vars

C7_Witness ==
    /\ pc = "reorder"
    /\ ReceivedToday > 0
    /\ demand > carried
    /\ stockout_qty < demand - carried

\* C8: a reorder attempt whose trial fails creates no pending order and
\* leaves the ordering cost and the stock as they were; while the reorder
\* condition holds on the next day the attempt is made again
C8_FailedAttemptNoChange ==
    [][/\ (pc = "reorder" /\ pc' # pc /\ attempt' = "failed") =>
            /\ pending_orders' = pending_orders
            /\ total_ordering' = total_ordering
            /\ current_stock' = current_stock
       /\ (pc = "reorder" /\ pc' # pc /\ attempt = "failed" /\ day > 0
            /\ current_stock <= policy.reorder_point + policy.safety_stock) =>
            attempt' \in {"placed", "failed"}]_vars

C8_Witness ==
    /\ pc = "costs"
    /\ attempt = "failed"
    /\ n_failed >= 2
    /\ pending_orders = <<>>
    /\ total_ordering = 0

\* C9: a failed order never ends the run: whatever the number of failed
\* attempts, every day of the range is simulated and recorded
C9_OrderFailureAbsorbed ==
    /\ pc \in {"start", "arrivals", "demand", "consume", "reorder", "costs",
               "record", "loop", "done", "error", "compile", "key_error"}
    /\ pc = "loop" => Len(results) = day - FirstDay + 1
    /\ pc = "done" => /\ Len(results) = LastDay - FirstDay + 1
                      /\ results[Len(results)].date = LastDay

C9_Witness ==
    /\ impl = "core"
    /\ pc = "done"
    /\ n_failed >= 2
    /\ Len(results) = end_date + 1

\* every day of the run the demand exceeds the stock the day opens with
DemandExceedsStock ==
    /\ forecast[0] > ledger_opening
    /\ \A d \in 1 .. end_date : ForecastAt(forecast, d) > 0

\* C10: with reliability 0 every trial fails whatever the draw: no pending
\* order, no ordering cost, stockout on every day
C10_ZeroReliabilityNeverOrders ==
    (impl = "core" /\ supplier.reliability = 0 /\ DemandExceedsStock) =>
        /\ pending_orders = <<>>
        /\ total_ordering = 0
        /\ \A i \in 1 .. Len(results) : results[i].stockout > 0

\* ------------------------------------------------ arrival dates (C11)
\* the offset the order arrives after: floor(lead_time * (1 + (1 - r))) with
\* r the reliability as a fraction, here in hundredths
ClaimedLeadDays ==
    (supplier.lead_time * (100 + (100 - supplier.reliability))) \div 100

\* the order stored by the reorder step just taken
PlacedToday == pc = "costs" /\ attempt = "placed"
NewestOrder == pending_orders[Len(pending_orders)]

\* C11: every order placed arrives floor(lead_time * (1 + (1 - reliability)))
\* calendar days after its order date, whatever the weekday of the order date
C11_ArrivalOffset ==
    PlacedToday => NewestOrder.arrival_date = day + ClaimedLeadDays

\* ------------------------------------------------- determinism (C12)
\* C12: a second run with the same policy, supplier, demand, date range and
\* arguments returns the daily records, totals and orders of the first run
C12_SameInputsSameResult ==
    (run_no = 2 /\ pc = "done" /\ first_run.next_call = "same_arguments"
        /\ holding_rate = first_run.holding_rate) =>
        /\ results = first_run.results
        /\ <<total_holding, total_ordering, total_stockout>> = first_run.totals
        /\ pending_orders = first_run.orders

\* ---------------------------------------------------- demand (C13, C14)
\* the steps of a day that follow the demand lookup
AfterLookup == pc \in {"consume", "reorder", "costs", "record", "loop"}

\* the quantity recorded for a date agrees with the override of the date when
\* there is one, else with the forecast row of the date
DemandAgrees(date, qty) ==
    IF date \in DOMAIN demand_mods
    THEN qty = demand_mods[date]
    ELSE qty = forecast[date]

C14_MissingDemandIsError ==
    AfterLookup =>
        (day \in DOMAIN demand_mods \/ ForecastAt(forecast, day) # NoEntry)

\* ------------------------------------------- incomplete data (C15, C16)
\* the run's dates reach outside the forecast dates
RangeExceedsCoverage ==
    FirstDay < MinDate(forecast) \/ LastDay > MaxDate(forecast)

\* a date of the range has neither an override nor a forecast entry
MissingDemandInRange ==
    \E d \in FirstDay .. LastDay :
        d \notin DOMAIN demand_mods /\ ForecastAt(forecast, d) = NoEntry

\* C15: a run whose range exceeds the forecast coverage, whose start date has
\* no opening-stock entry, or which meets a missing demand entry, returns no
\* result
C15_IncompleteDataNoResult ==
    (RangeExceedsCoverage \/ ~ledger_has_start \/ MissingDemandInRange)
        => pc # "done"

\* C16: a run with start_date after end_date is rejected with an error before
\* any day is simulated and never reaches result compilation
C16_ReversedRangeRejected ==
    (impl = "core" /\ start_date > end_date) => pc \in {"start", "error"}

\* --------------------------------------------------- timeline (C17)
\* the run has complete data: dates in order and inside the coverage, the
\* ledger row of start_date, a demand for every date, and a row in the
\* suppliers file for the supplier it forces, when it forces one
CompleteRun ==
    /\ start_date <= end_date
    /\ SupplierKnown
    /\ ~RangeExceedsCoverage
    /\ ledger_has_start
    /\ ~MissingDemandInRange

\* C17: a run with start_date <= end_date and complete data terminates with
\* exactly one record per calendar day: the first of start_date, each next one
\* day later, the last of end_date
C17_OneRecordPerDay ==
    /\ [](\A i \in 1 .. Len(results) : results[i].date = start_date + i - 1)
    /\ [](pc = "done" =>
            /\ Len(results) = end_date - start_date + 1
            /\ results[Len(results)].date = end_date)
    /\ (CompleteRun => <>(pc = "done"))

C17_Witness ==
    /\ pc = "done"
    /\ start_date > 0
    /\ end_date > start_date + 1
    /\ Len(results) = end_date - start_date + 1
    /\ \E i \in 1 .. Len(results) : Weekday(results[i].date) > 4

\* ------------------------------------------------------ costs (C18-C20)
\* the days whose costs are accrued and recorded; at "record" the costs of the
\* day are accrued and its record is not yet appended
InventoryOf(rs) == [i \in 1 .. Len(rs) |-> rs[i].inventory]
StockoutsOf(rs) == [i \in 1 .. Len(rs) |-> rs[i].stockout]

\* C18: each day adds closing stock * daily holding rate to total_holding and
\* stockout quantity * penalty to total_stockout, the closing stock being the
\* stock after consumption; the totals are the sums over the days simulated
C18_CostAccrual ==
    (impl = "core" /\ pc \in {"record", "loop", "done"}) =>
        LET today == IF pc = "record" THEN <<StockAfter>> ELSE <<>>
            short == IF pc = "record" THEN <<stockout_qty>> ELSE <<>>
        IN /\ total_holding =
                holding_rate * SumSeq(InventoryOf(results) \o today)
           /\ total_stockout =
                StockoutPenalty * SumSeq(StockoutsOf(results) \o short)

C18_Witness ==
    /\ impl = "core"
    /\ pc = "done"
    /\ total_holding > 0
    /\ total_stockout > 0
    /\ \E i \in 1 .. Len(results) :
         results[i].inventory > 0 /\ results[i].demand > 0

\* the annualized rate the run is given: the rate of run(), else the rate of
\* the constructor, else the default
ClaimedAnnualRate ==
    IF arg_holding_rate # NoRate THEN arg_holding_rate
    ELSE IF ctor_holding_rate # NoRate THEN ctor_holding_rate
    ELSE DefaultAnnualRatePct

\* C19: the daily holding rate in effect during a run is
\* unit_cost * annualized rate / 365, the rate being given to the constructor
\* or to run()
C19_DailyHoldingRate ==
    (impl = "core" /\ pc # "start") =>
        holding_rate = policy.unit_cost * ClaimedAnnualRate

\* C20: the ordering cost is accrued once per order placed and never for a
\* failed attempt: total_ordering is the order cost times the number of
\* orders placed so far (the order manager's list keeps every order placed)
C20_OrderingCostPerOrder ==
    impl = "core" =>
        total_ordering = EstimatedOrderCost * Len(pending_orders)

C20_Witness ==
    /\ impl = "core"
    /\ pc = "done"
    /\ n_failed >= 1
    /\ Len(pending_orders) = 1
    /\ total_ordering = EstimatedOrderCost
    /\ total_ordering > 0

\* ------------------------------------------------------ metrics (C21)
\* the number of records with unmet demand, counted record by record
RECURSIVE DaysShort(_)
DaysShort(rs) ==
    IF rs = <<>> THEN 0
    ELSE (IF Head(rs).stockout > 0 THEN 1 ELSE 0) + DaysShort(Tail(rs))

\* C21: the stockout_days metric of a finished run is the number of simulated
\* days with a stockout quantity > 0; it lies between 0 and the number of days
\* of the range, and is 0 exactly when no stockout cost has accrued
C21_StockoutDaysMetric ==
    (impl = "core" /\ pc = "done") =>
        /\ metrics.stockout_days = DaysShort(results)
        /\ metrics.stockout_days \in 0 .. (end_date - start_date + 1)
        /\ (metrics.stockout_days = 0) <=> (total_stockout = 0)

C21_Witness ==
    /\ impl = "core"
    /\ pc = "done"
    /\ metrics.stockout_days >= 2
    /\ metrics.stockout_days < Len(results)

\* ------------------------------------------ pairs of runs (C22 - C26)
\* the second call of the caller is the named one
SecondIs(call) == run_no = 2 /\ first_run.next_call = call

\* neither run is charged at a rate that a call of set_holding_rate has put
\* in place of the rate of the constructor or of run()
NoRateSet ==
    holding_rate \notin SetRates /\ first_run.holding_rate \notin SetRates

\* C22: the stockout penalty is a parameter of the run; with everything else
\* and the order outcomes the same, a run with a penalty at least as high has
\* a total_stockout_cost at least as high when it has stockout days
C22_PenaltyMonotone ==
    SecondIs("stockout_penalty") =>
        /\ pc # "type_error"
        /\ (pc = "done" /\ results = first_run.results
              /\ metrics.stockout_days > 0) =>
                metrics.total_stockout_cost
                    >= first_run.metrics.total_stockout_cost

\* C23: of two runs that differ only in the annualized holding rate, the
\* second having double the rate of the first, and that have the same daily
\* closing stocks, the second reports exactly twice the total_holding_cost
C23_DoubleRateDoubleCost ==
    (SecondIs("double_rate") /\ pc = "done" /\ NoRateSet
        /\ InventoryOf(results) = InventoryOf(first_run.results)) =>
        metrics.total_holding_cost = 2 * first_run.metrics.total_holding_cost

\* run() has initialised the stock and is about to simulate its first day
RunJustStarted == pc = FirstStep /\ results = <<>>

\* C24: every run, a later run on the same simulator included, starts with
\* the ledger's opening stock of start_date, no pending order and cost totals
\* of zero
C24_RunStartsFromInitialState ==
    (impl = "core" /\ RunJustStarted) =>
        /\ current_stock = ledger_opening
        /\ pending_orders = <<>>
        /\ total_holding = 0
        /\ total_ordering = 0
        /\ total_stockout = 0

\* C25: the base run and the scenario run of a comparison cover the same
\* dates (same first and last day, same number of records) and read the same
\* demand, whatever supplier the scenario selects
C25_SameRangeSameDemand ==
    (SecondIs("scenario") /\ pc = "done") =>
        /\ Len(results) = Len(first_run.results)
        /\ results[1].date = first_run.results[1].date
        /\ results[Len(results)].date =
               first_run.results[Len(first_run.results)].date
        /\ \A i \in 1 .. Min(Len(results), Len(first_run.results)) :
               results[i].demand = first_run.results[i].demand

\* C26: runs share no mutable state: in a process whose random module is in a
\* given state, a run returns the same records and metrics whether it is
\* executed alone (the first call) or after another run (the second call).
\* While known draws remain, every draw of both runs came from the given
\* state: the records the second run has made are those of the first run, and
\* so are its metrics when it is done
C26_RunsShareNoState ==
    (SecondIs("same_arguments") /\ random_state # Unseeded) =>
        /\ \A i \in 1 .. Len(results) :
               /\ i <= Len(first_run.results)
               /\ results[i] = first_run.results[i]
        /\ (pc = "done" /\ NoRateSet) => metrics = first_run.metrics

\* ------------------------------------------------ cost totals (C27)
\* C27: the cost totals and the daily costs are never negative, and no total
\* ever decreases
C27_CostsNeverDecrease ==
    /\ [](/\ total_holding >= 0
          /\ total_ordering >= 0
          /\ total_stockout >= 0
          /\ holding_cost >= 0
          /\ ordering_cost >= 0)
    /\ [][/\ total_holding' >= total_holding
          /\ total_ordering' >= total_ordering
          /\ total_stockout' >= total_stockout]_vars

C27_Witness ==
    /\ impl = "core"
    /\ pc = "done"
    /\ total_holding > 0
    /\ total_ordering > 0
    /\ total_stockout > 0
    /\ Len(results) > 1

\* ------------------------------------------------ enable_risk (C28)
\* C28: without enable_risk no reorder attempt undergoes the failure trial:
\* an attempt can fail only in a run with enable_risk = TRUE
C28_RiskFlagControlsTrial ==
    attempt = "failed" => enable_risk

\* ------------------------------------------------ conservation (C29)
\* the order has been added to stock: a receipt of its quantity on its
\* arrival date
Received(o) ==
    \E j \in 1 .. Len(receipts) :
        receipts[j].date = o.arrival_date /\ receipts[j].quantity = o.quantity

\* C29: at the end of a day every order in the list whose arrival date has
\* come has been added to stock, on its arrival date, whatever the lead time
C29_DueOrdersReceived ==
    pc = "loop" =>
        \A i \in 1 .. Len(pending_orders) :
            pending_orders[i].arrival_date <= day => Received(pending_orders[i])

====
